---------------------------- MODULE Spec2Model ----------------------------
(***************************************************************************)
(* Model of lib/charms/traefik_route_k8s/v0/traefik_route.py:              *)
(*   - the JSON helper pair _serialize_data / _deserialize_data,           *)
(*   - TraefikRouteRequirer (relation, proxied_endpoint,                   *)
(*     relay_ingress_request) working on the host's relation databags,     *)
(*   - TraefikRouteProvider re-emitting "ready" as "request".              *)
(* The host framework (relation list, databags, leadership, event          *)
(* dispatch) is the environment.                                           *)
(***************************************************************************)
EXTENDS Integers, Sequences, FiniteSets, TLC

(***************************************************************************)
(* Bounds.                                                                 *)
(***************************************************************************)
MaxRelations == 2
MaxEvents == 3

RelIds == 1..MaxRelations
\* "no relation": the accessor's None
NoRelation == 0

(***************************************************************************)
(* Python values, as far as json.dumps / json.loads tell them apart.       *)
(* A dict is its items in insertion order; keys are unique.                *)
(***************************************************************************)
PyNone == [t |-> "none", s |-> "", n |-> 0, items |-> <<>>]
PyStr(str) == [t |-> "str", s |-> str, n |-> 0, items |-> <<>>]
PyInt(i) == [t |-> "int", s |-> "", n |-> i, items |-> <<>>]
PyList(elems) == [t |-> "list", s |-> "", n |-> 0, items |-> elems]
PyTuple(elems) == [t |-> "tuple", s |-> "", n |-> 0, items |-> elems]
\* a value json.dumps has no encoding for (a set, an arbitrary object)
PySet == [t |-> "set", s |-> "", n |-> 0, items |-> <<>>]
KV(key, val) == [key |-> key, val |-> val]
PyDict(kvs) == [t |-> "dict", s |-> "", n |-> 0, items |-> kvs]

DictKeys(d) == {d.items[i].key : i \in 1..Len(d.items)}

\* dict.get(key, default)
DictGet(d, key, default) ==
  IF key \in DictKeys(d)
  THEN LET i == CHOOSE j \in 1..Len(d.items) : d.items[j].key = key
       IN d.items[i].val
  ELSE default

\* d[key] = val: an existing key keeps its position, a new key is added last
DictSet(kvs, key, val) ==
  IF \E i \in 1..Len(kvs) : kvs[i].key = key
  THEN [i \in 1..Len(kvs) |-> IF kvs[i].key = key THEN KV(key, val) ELSE kvs[i]]
  ELSE Append(kvs, KV(key, val))

\* Python's ==: dicts compare as mappings (order of insertion is ignored),
\* lists and tuples element by element, a list never equals a tuple
RECURSIVE PyEq(_, _)
PyEq(a, b) ==
  IF a.t # b.t THEN FALSE
  ELSE IF a.t = "dict"
       THEN /\ DictKeys(a) = DictKeys(b)
            /\ \A k \in DictKeys(a) : PyEq(DictGet(a, k, PyNone), DictGet(b, k, PyNone))
       ELSE IF a.t \in {"list", "tuple"}
            THEN /\ Len(a.items) = Len(b.items)
                 /\ \A i \in 1..Len(a.items) : PyEq(a.items[i], b.items[i])
            ELSE a = b

(***************************************************************************)
(* JSON text, as its sequence of lexemes.  Whitespace is kept: indent=2    *)
(* writes a newline and 2*level spaces before every member and before the  *)
(* closing bracket, and one space after every colon.                       *)
(***************************************************************************)
Punct(c) == [k |-> c, s |-> "", n |-> 0]
TokStr(str) == [k |-> "str", s |-> str, n |-> 0]
TokInt(i) == [k |-> "int", s |-> "", n |-> i]
TokNull == [k |-> "null", s |-> "", n |-> 0]
\* a newline followed by n spaces
TokNewline(n) == [k |-> "ws", s |-> "\n", n |-> n]
TokSpace == [k |-> "ws", s |-> " ", n |-> 1]
\* a lexeme that is not JSON (a bare word, a single-quoted string)
TokBad == [k |-> "bad", s |-> "", n |-> 0]

CodecOk(res) == res.err = "none"

\* json.dumps turns a dict key into a JSON string: str as it is, int by
\* str(), None as "null"; every other key type raises TypeError
KeyText(key) ==
  IF key.t = "str" THEN [err |-> "none", s |-> key.s]
  ELSE IF key.t = "int" THEN [err |-> "none", s |-> ToString(key.n)]
  ELSE IF key.t = "none" THEN [err |-> "none", s |-> "null"]
  ELSE [err |-> "TypeError", s |-> ""]

\* json.dumps(value, indent=2) at nesting depth lvl
RECURSIVE Dumps(_, _)
RECURSIVE DumpsItems(_, _, _)
RECURSIVE DumpsMembers(_, _, _)

DumpsItems(elems, i, lvl) ==
  IF i > Len(elems) THEN [err |-> "none", text |-> <<>>]
  ELSE LET head == Dumps(elems[i], lvl)
           tail == DumpsItems(elems, i + 1, lvl)
           sep == IF i = 1 THEN <<>> ELSE <<Punct(",")>>
       IN IF ~CodecOk(head) THEN head
          ELSE IF ~CodecOk(tail) THEN tail
          ELSE [err |-> "none",
                text |-> sep \o <<TokNewline(2 * lvl)>> \o head.text \o tail.text]

DumpsMembers(kvs, i, lvl) ==
  IF i > Len(kvs) THEN [err |-> "none", text |-> <<>>]
  ELSE LET key == KeyText(kvs[i].key)
           head == Dumps(kvs[i].val, lvl)
           tail == DumpsMembers(kvs, i + 1, lvl)
           sep == IF i = 1 THEN <<>> ELSE <<Punct(",")>>
       IN IF ~CodecOk(key) THEN [err |-> "TypeError", text |-> <<>>]
          ELSE IF ~CodecOk(head) THEN head
          ELSE IF ~CodecOk(tail) THEN tail
          ELSE [err |-> "none",
                text |-> sep \o <<TokNewline(2 * lvl), TokStr(key.s), Punct(":"), TokSpace>>
                             \o head.text \o tail.text]

Dumps(v, lvl) ==
  CASE v.t = "str" -> [err |-> "none", text |-> <<TokStr(v.s)>>]
    [] v.t = "int" -> [err |-> "none", text |-> <<TokInt(v.n)>>]
    [] v.t = "none" -> [err |-> "none", text |-> <<TokNull>>]
    [] v.t \in {"list", "tuple"} ->
         IF v.items = <<>> THEN [err |-> "none", text |-> <<Punct("["), Punct("]")>>]
         ELSE LET body == DumpsItems(v.items, 1, lvl + 1)
              IN IF ~CodecOk(body) THEN body
                 ELSE [err |-> "none",
                       text |-> <<Punct("[")>> \o body.text
                                \o <<TokNewline(2 * lvl), Punct("]")>>]
    [] v.t = "dict" ->
         IF v.items = <<>> THEN [err |-> "none", text |-> <<Punct("{"), Punct("}")>>]
         ELSE LET body == DumpsMembers(v.items, 1, lvl + 1)
              IN IF ~CodecOk(body) THEN body
                 ELSE [err |-> "none",
                       text |-> <<Punct("{")>> \o body.text
                                \o <<TokNewline(2 * lvl), Punct("}")>>]
    [] OTHER -> [err |-> "TypeError", text |-> <<>>]

\* a slip: json.dumps(str(data), indent=2), the text of a JSON string
_serialize_data_str(data) == Dumps(PyStr("repr"), 0)

\* _serialize_data(data): json.dumps(data, indent=2)
_serialize_data(data) == Dumps(data, 0)

(***************************************************************************)
(* json.loads: a recursive-descent reading of the lexemes.                 *)
(***************************************************************************)
DecodeError == [err |-> "JSONDecodeError", val |-> PyNone, next |-> 0]
Decoded(v, next) == [err |-> "none", val |-> v, next |-> next]

\* index of the first lexeme at or after i that is not whitespace
RECURSIVE SkipWs(_, _)
SkipWs(toks, i) ==
  IF i <= Len(toks) /\ toks[i].k = "ws" THEN SkipWs(toks, i + 1) ELSE i

RECURSIVE ParseValue(_, _)
RECURSIVE ParseMembers(_, _, _)
RECURSIVE ParseElements(_, _, _)

\* the members of an object, from the key expected at i on; a repeated key
\* keeps its last value
ParseMembers(toks, i, acc) ==
  LET j == SkipWs(toks, i)
  IN IF j > Len(toks) \/ toks[j].k # "str" THEN DecodeError
     ELSE LET c == SkipWs(toks, j + 1)
          IN IF c > Len(toks) \/ toks[c].k # ":" THEN DecodeError
             ELSE LET v == ParseValue(toks, c + 1)
                  IN IF ~CodecOk(v) THEN DecodeError
                     ELSE LET e == SkipWs(toks, v.next)
                              acc2 == DictSet(acc, PyStr(toks[j].s), v.val)
                          IN IF e > Len(toks) THEN DecodeError
                             ELSE IF toks[e].k = "}" THEN Decoded(PyDict(acc2), e + 1)
                             ELSE IF toks[e].k = "," THEN ParseMembers(toks, e + 1, acc2)
                             ELSE DecodeError

\* the elements of an array, from the value expected at i on
ParseElements(toks, i, acc) ==
  LET v == ParseValue(toks, i)
  IN IF ~CodecOk(v) THEN DecodeError
     ELSE LET e == SkipWs(toks, v.next)
              acc2 == Append(acc, v.val)
          IN IF e > Len(toks) THEN DecodeError
             ELSE IF toks[e].k = "]" THEN Decoded(PyList(acc2), e + 1)
             ELSE IF toks[e].k = "," THEN ParseElements(toks, e + 1, acc2)
             ELSE DecodeError

ParseValue(toks, i) ==
  LET j == SkipWs(toks, i)
  IN IF j > Len(toks) THEN DecodeError
     ELSE CASE toks[j].k = "str" -> Decoded(PyStr(toks[j].s), j + 1)
            [] toks[j].k = "int" -> Decoded(PyInt(toks[j].n), j + 1)
            [] toks[j].k = "null" -> Decoded(PyNone, j + 1)
            [] toks[j].k = "{" ->
                 LET m == SkipWs(toks, j + 1)
                 IN IF m <= Len(toks) /\ toks[m].k = "}"
                    THEN Decoded(PyDict(<<>>), m + 1)
                    ELSE ParseMembers(toks, j + 1, <<>>)
            [] toks[j].k = "[" ->
                 LET m == SkipWs(toks, j + 1)
                 IN IF m <= Len(toks) /\ toks[m].k = "]"
                    THEN Decoded(PyList(<<>>), m + 1)
                    ELSE ParseElements(toks, j + 1, <<>>)
            [] OTHER -> DecodeError

\* what databag.get(key) returns: the text, or None when the key is missing
NoText == [present |-> FALSE, text |-> <<>>]
SomeText(text) == [present |-> TRUE, text |-> text]

\* a slip: json.loads(data or "{}"), a missing field read as an empty object
_deserialize_data_lenient(data) ==
  IF ~data.present THEN [err |-> "none", val |-> PyDict(<<>>)]
  ELSE LET v == ParseValue(data.text, 1)
       IN IF ~CodecOk(v) THEN [err |-> "JSONDecodeError", val |-> PyNone]
          ELSE IF SkipWs(data.text, v.next) <= Len(data.text)
               THEN [err |-> "JSONDecodeError", val |-> PyNone]
               ELSE [err |-> "none", val |-> v.val]

\* _deserialize_data(data): json.loads(data).  None is not a str: TypeError.
\* Text left over after the value is "Extra data": JSONDecodeError.
_deserialize_data(data) ==
  IF ~data.present THEN [err |-> "TypeError", val |-> PyNone]
  ELSE LET v == ParseValue(data.text, 1)
       IN IF ~CodecOk(v) THEN [err |-> "JSONDecodeError", val |-> PyNone]
          ELSE IF SkipWs(data.text, v.next) <= Len(data.text)
               THEN [err |-> "JSONDecodeError", val |-> PyNone]
               ELSE [err |-> "none", val |-> v.val]

(***************************************************************************)
(* The values the calls are made with.                                     *)
(***************************************************************************)
Units == {"app/0", "app/1"}
\* nobody holds leadership (an election is under way)
NoUnit == "none"

Config1 == PyDict(<<KV(PyStr("rule"), PyStr("Host(foo.bar)"))>>)
\* a mapping json.dumps accepts and json.loads does not give back: an int key
ConfigIntKey == PyDict(<<KV(PyInt(1), PyStr("Host(foo.bar)"))>>)
Ingress1 == PyDict(<<KV(PyStr("model"), PyStr("cos")), KV(PyStr("unit"), PyStr("prom/0"))>>)
Ingress2 == PyDict(<<KV(PyStr("unit"), PyStr("prom/1")), KV(PyStr("model"), PyStr("cos"))>>)

\* the <<ingress, config>> pairs the calls are made with: two that json.dumps
\* accepts, one whose ingress it rejects, one whose config it rejects
RelayArgs ==
  { <<Ingress1, Config1>>, <<Ingress2, ConfigIntKey>>,
    <<PySet, Config1>>, <<Ingress1, PySet>> }

\* the text of a JSON-serializable value
TextOf(v) == _serialize_data(v).text

\* {u: {"url": x}}, what traefik publishes for unit u
RouteFor(u, x) == PyDict(<<KV(PyStr(u), PyDict(<<KV(PyStr("url"), PyStr(x))>>))>>)

\* a key of the requirer's application databag this library never writes
OtherKey == "other"
OtherText == <<TokStr("kept")>>

\* a databag is a function from the keys it holds to their texts
EmptyBag == [key \in {} |-> <<>>]
\* databag.get(key)
BagGet(bag, key) == IF key \in DOMAIN bag THEN SomeText(bag[key]) ELSE NoText
\* a slip: databag.setdefault(key, text), a key already there keeps its text
BagSetDefault(bag, key, text) ==
  [x \in DOMAIN bag \cup {key} |-> IF x \in DOMAIN bag THEN bag[x] ELSE text]

\* databag[key] = text
BagSet(bag, key, text) ==
  [x \in DOMAIN bag \cup {key} |-> IF x = key THEN text ELSE bag[x]]

\* the requirer's application databag of a relation when the library first
\* sees it: empty, or holding a key the charm wrote by other means
InitialAppBags == {EmptyBag, BagSet(EmptyBag, OtherKey, OtherText)}

(***************************************************************************)
(* State.                                                                  *)
(***************************************************************************)
VARIABLES
  declared,    \* the endpoint name is a key of charm.model.relations
  relations,   \* charm.model.relations[endpoint], in the host's order
  nextId,      \* the id the host gives to the next relation it establishes
  leader,      \* the unit for which unit.is_leader() holds, or NoUnit
  appData,     \* relation id -> relation.data[charm.app]
  remoteData,  \* relation id -> relation.data[relation.app]
  result,      \* the last call of the requirer's interface and how it ended
  observers,   \* handlers the framework holds for the provider's on.ready
  log          \* the notifications emitted on the provider, in order

vars == <<declared, relations, nextId, leader, appData, remoteData, result, observers, log>>

Live == {relations[i] : i \in 1..Len(relations)}

NoCall ==
  [op |-> "none", unit |-> NoUnit, outcome |-> "none", ret |-> PyNone,
   rel |-> NoRelation, ingress |-> PyNone, config |-> PyNone]

Init ==
  /\ declared \in BOOLEAN
  /\ relations = <<>>
  /\ nextId = 1
  /\ leader \in Units \cup {NoUnit}
  /\ appData = [r \in {} |-> EmptyBag]
  /\ remoteData = [r \in {} |-> EmptyBag]
  /\ result = NoCall
  /\ observers = <<>>
  /\ log = <<>>

(***************************************************************************)
(* The host.                                                               *)
(***************************************************************************)
Without(seq, i) == [j \in 1..(Len(seq) - 1) |-> IF j < i THEN seq[j] ELSE seq[j + 1]]
Restrict(f, S) == [x \in S |-> f[x]]
Extend(f, x, v) == [y \in DOMAIN f \cup {x} |-> IF y = x THEN v ELSE f[y]]

\* a relation is established on the endpoint; the host numbers relations in
\* the order it establishes them and never gives an id twice
HostCreateRelation(bag) ==
  /\ declared
  /\ nextId <= MaxRelations
  /\ relations' = Append(relations, nextId)
  /\ nextId' = nextId + 1
  /\ appData' = Extend(appData, nextId, bag)
  /\ remoteData' = Extend(remoteData, nextId, EmptyBag)
  /\ UNCHANGED <<declared, leader, result, observers, log>>

\* a relation is removed, and its databags with it
HostRemoveRelation(i) ==
  /\ i \in 1..Len(relations)
  /\ relations' = Without(relations, i)
  /\ appData' = Restrict(appData, Live \ {relations[i]})
  /\ remoteData' = Restrict(remoteData, Live \ {relations[i]})
  /\ UNCHANGED <<declared, nextId, leader, result, observers, log>>

\* leadership moves to another unit, or is lost
HostLeaderChange(u) ==
  /\ u # leader
  /\ leader' = u
  /\ UNCHANGED <<declared, relations, nextId, appData, remoteData, result, observers, log>>

\* the remote application (traefik) publishes into its databag
RemoteWrite(r, text) ==
  /\ r \in Live
  /\ remoteData' = [remoteData EXCEPT ![r] = BagSet(@, "traefik_route", text)]
  /\ UNCHANGED <<declared, relations, nextId, leader, appData, result, observers, log>>

(***************************************************************************)
(* TraefikRouteRequirer.                                                   *)
(***************************************************************************)
\* a slip: the lookup made with a key model.relations does not have
RelationsGetWrongKey == [present |-> FALSE, list |-> <<>>]

\* charm.model.relations.get(endpoint): the list, or None for an unknown key
RelationsGet ==
  IF declared THEN [present |-> TRUE, list |-> relations]
  ELSE [present |-> FALSE, list |-> <<>>]

\* a slip: relations[-1], the last relation of the list
relation_last ==
  LET rs == RelationsGet
  IN IF rs.present /\ rs.list # <<>> THEN rs.list[Len(rs.list)] ELSE NoRelation

\* the relation property: the first relation of the endpoint, or None
relation ==
  LET rs == RelationsGet
  IN IF rs.present /\ rs.list # <<>> THEN rs.list[1] ELSE NoRelation

Raised(exc) == [outcome |-> exc, ret |-> PyNone]
Returned(v) == [outcome |-> "ok", ret |-> v]

\* a slip: data.get(unit.name, {}), the unit's entry instead of its URL
LookupUrlEntry(data, u) ==
  IF data.t # "dict" THEN Raised("AttributeError")
  ELSE Returned(DictGet(data, PyStr(u), PyDict(<<>>)))

\* data.get(unit.name, {}).get('url'); .get on a value that is not a dict
\* is an AttributeError
LookupUrl(data, u) ==
  IF data.t # "dict" THEN Raised("AttributeError")
  ELSE LET entry == DictGet(data, PyStr(u), PyDict(<<>>))
       IN IF entry.t # "dict" THEN Raised("AttributeError")
          ELSE Returned(DictGet(entry, PyStr("url"), PyNone))

\* the body of proxied_endpoint once self.relation is rel: None has no
\* attribute "data"; an exception of _deserialize_data is not caught
ReadEndpoint(rel, u) ==
  IF rel = NoRelation THEN Raised("AttributeError")
  ELSE LET raw_data == BagGet(remoteData[rel], "traefik_route")
           data == _deserialize_data(raw_data)
       IN IF ~CodecOk(data) THEN Raised(data.err)
          ELSE LookupUrl(data.val, u)

\* the proxied_endpoint property, read by unit u
proxied_endpoint(u) == ReadEndpoint(relation, u)

\* the two assignments of relay_ingress_request on the databag of rel, in the
\* order of the code: each value is serialized right before it is stored
WriteFields(bags, rel, ingress, config) ==
  LET cfg == _serialize_data(config)
      ing == _serialize_data(ingress)
      bags1 == [bags EXCEPT ![rel] = BagSet(@, "config", cfg.text)]
      bags2 == [bags1 EXCEPT ![rel] = BagSet(@, "ingress", ing.text)]
  IN IF ~CodecOk(cfg) THEN [outcome |-> cfg.err, bags |-> bags]
     ELSE IF ~CodecOk(ing) THEN [outcome |-> ing.err, bags |-> bags1]
     ELSE [outcome |-> "ok", bags |-> bags2]

\* a slip: the answer of a unit that takes itself for the leader
is_leader_any(u) == u \in Units

\* unit.is_leader()
is_leader(u) == u = leader

\* a slip: the leadership check made after the two assignments
relay_ingress_request_late_check(u, ingress, config) ==
  IF relation = NoRelation THEN [outcome |-> "AttributeError", bags |-> appData]
  ELSE LET w == WriteFields(appData, relation, ingress, config)
       IN IF w.outcome = "ok" /\ ~is_leader(u)
          THEN [outcome |-> "UnauthorizedError", bags |-> w.bags]
          ELSE w

\* relay_ingress_request(ingress, config), called by unit u
relay_ingress_request(u, ingress, config) ==
  IF ~is_leader(u) THEN [outcome |-> "UnauthorizedError", bags |-> appData]
  ELSE IF relation = NoRelation THEN [outcome |-> "AttributeError", bags |-> appData]
  ELSE WriteFields(appData, relation, ingress, config)

GetRelation(u) ==
  /\ result' = [NoCall EXCEPT !.op = "relation", !.unit = u, !.outcome = "ok",
                              !.rel = relation]
  /\ UNCHANGED <<declared, relations, nextId, leader, appData, remoteData, observers, log>>

ProxiedEndpoint(u) ==
  LET res == proxied_endpoint(u)
  IN /\ result' = [NoCall EXCEPT !.op = "proxied_endpoint", !.unit = u,
                                 !.outcome = res.outcome, !.ret = res.ret,
                                 !.rel = relation]
     /\ UNCHANGED <<declared, relations, nextId, leader, appData, remoteData, observers, log>>

RelayIngressRequest(u, ingress, config) ==
  LET res == relay_ingress_request(u, ingress, config)
  IN /\ appData' = res.bags
     /\ result' = [NoCall EXCEPT !.op = "relay_ingress_request", !.unit = u,
                                 !.outcome = res.outcome, !.rel = relation,
                                 !.ingress = ingress, !.config = config]
     /\ UNCHANGED <<declared, relations, nextId, leader, remoteData, observers, log>>

\* what traefik publishes in the runs of the whole interface
RemoteTexts == {TextOf(RouteFor("app/0", "http://foo.bar/app-0"))}

Next ==
  \/ \E bag \in InitialAppBags : HostCreateRelation(bag)
  \/ \E i \in 1..MaxRelations : HostRemoveRelation(i)
  \/ \E u \in Units \cup {NoUnit} : HostLeaderChange(u)
  \/ \E r \in RelIds, text \in RemoteTexts : RemoteWrite(r, text)
  \/ \E u \in Units : GetRelation(u)
  \/ \E u \in Units : ProxiedEndpoint(u)
  \/ \E u \in Units, args \in RelayArgs : RelayIngressRequest(u, args[1], args[2])

Spec == Init /\ [][Next]_vars

(***************************************************************************)
(* The read path on its own: one relation, and everything traefik (or      *)
(* anything else writing the remote databag) may leave in "traefik_route". *)
(***************************************************************************)
Urls == {"http://foo.bar/app-0", "http://foo.bar/app-1"}
\* unit names found in the published data: the requirer's units and a stranger
RouteUnits == Units \cup {"other/0"}

GoodTexts == {TextOf(RouteFor(u, x)) : u \in RouteUnits, x \in Urls}

\* the same object written without any whitespace
CompactRoute(u, x) ==
  <<Punct("{"), TokStr(u), Punct(":"), Punct("{"), TokStr("url"), Punct(":"),
    TokStr(x), Punct("}"), Punct("}")>>

\* well-formed JSON of another shape than {unit: {"url": ...}}
OddTexts ==
  { <<Punct("["), Punct("]")>>,
    <<TokNull>>,
    <<Punct("{"), Punct("}")>>,
    <<Punct("{"), TokStr("app/0"), Punct(":"), TokStr("http://foo.bar/app-0"), Punct("}")>>,
    <<Punct("{"), TokStr("app/0"), Punct(":"), Punct("{"), Punct("}"), Punct("}")>>,
    CompactRoute("app/1", "http://foo.bar/app-1") }

\* texts that are not JSON: every proper prefix of a document (the empty text
\* among them), a document followed by more text, a trailing comma, a key
\* without a colon, a key that is not a string, a lexeme that is not JSON
SampleText == TextOf(RouteFor("app/0", "http://foo.bar/app-0"))
MalformedTexts ==
  {SubSeq(SampleText, 1, n) : n \in 0..(Len(SampleText) - 1)}
    \cup { SampleText \o <<Punct("}")>>,
           <<Punct("{"), TokStr("app/0"), Punct(":"), TokNull, Punct(","), Punct("}")>>,
           <<Punct("{"), TokStr("app/0"), TokNull, Punct("}")>>,
           <<Punct("{"), TokInt(1), Punct(":"), TokNull, Punct("}")>>,
           <<Punct("["), TokNull, Punct(","), Punct("]")>>,
           <<TokBad>> }

ReadTexts == GoodTexts \cup OddTexts \cup MalformedTexts

ReadInit ==
  /\ declared = TRUE
  /\ relations = <<1>>
  /\ nextId = 2
  /\ leader \in Units \cup {NoUnit}
  /\ appData = [r \in {1} |-> EmptyBag]
  /\ remoteData = [r \in {1} |-> EmptyBag]
  /\ result = NoCall
  /\ observers = <<>>
  /\ log = <<>>

ReadNext ==
  \/ \E text \in ReadTexts : RemoteWrite(1, text)
  \/ \E u \in Units : ProxiedEndpoint(u)

ReadSpec == ReadInit /\ [][ReadNext]_vars

(***************************************************************************)
(* TraefikRouteProvider.                                                   *)
(***************************************************************************)
Ready(r) == [kind |-> "ready", rel |-> r]
Request(r) == [kind |-> "request", rel |-> r]

\* a slip: the request emitted for no relation (event instead of event.relation)
_emit_request_event_no_relation(lg, rel) == Append(lg, Request(NoRelation))

\* _emit_request_event(event): self.on.request.emit(event.relation)
_emit_request_event(lg, rel) == Append(lg, Request(rel))

\* the framework calls the handlers of an event one after the other
RECURSIVE Dispatch(_, _, _, _)
Dispatch(lg, handlers, i, rel) ==
  IF i > Len(handlers) THEN lg
  ELSE Dispatch(_emit_request_event(lg, rel), handlers, i + 1, rel)

\* TraefikRouteProvider.__init__: framework.observe(on.ready, _emit_request_event);
\* the framework refuses a second object under the same parent and key
ProviderConstruct ==
  /\ observers = <<>>
  /\ observers' = Append(observers, "_emit_request_event")
  /\ UNCHANGED <<declared, relations, nextId, leader, appData, remoteData, result, log>>

ReadyCount == Cardinality({i \in 1..Len(log) : log[i].kind = "ready"})

\* the host emits "ready" for relation r; its handlers run before emit returns
HostEmitReady(r) ==
  /\ r \in Live
  /\ ReadyCount < MaxEvents
  /\ log' = Dispatch(Append(log, Ready(r)), observers, 1, r)
  /\ UNCHANGED <<declared, relations, nextId, leader, appData, remoteData, result, observers>>

ProviderNext ==
  \/ \E bag \in InitialAppBags : HostCreateRelation(bag)
  \/ \E i \in 1..MaxRelations : HostRemoveRelation(i)
  \/ ProviderConstruct
  \/ \E r \in RelIds : HostEmitReady(r)

ProviderSpec == Init /\ [][ProviderNext]_vars

(***************************************************************************)
(* Properties.                                                             *)
(***************************************************************************)
\* the step is a call of the named operation (result' records the caller
\* and the arguments of the call the step makes)
RelayStep ==
  /\ result'.op = "relay_ingress_request"
  /\ RelayIngressRequest(result'.unit, result'.ingress, result'.config)
ProxiedStep ==
  /\ result'.op = "proxied_endpoint"
  /\ ProxiedEndpoint(result'.unit)
RelationStep ==
  /\ result'.op = "relation"
  /\ GetRelation(result'.unit)

\* values json.loads gives back as they went into json.dumps: strings, ints,
\* None, lists of such, dicts of such with string keys
RECURSIVE JsonNative(_)
JsonNative(v) ==
  CASE v.t \in {"str", "int", "none"} -> TRUE
    [] v.t = "list" -> \A i \in 1..Len(v.items) : JsonNative(v.items[i])
    [] v.t = "dict" -> \A i \in 1..Len(v.items) :
                          v.items[i].key.t = "str" /\ JsonNative(v.items[i].val)
    [] OTHER -> FALSE

\* parsing the field of a databag gives back v
ParsesTo(bag, key, v) ==
  LET back == _deserialize_data(BagGet(bag, key))
  IN CodecOk(back) /\ PyEq(back.val, v)

\* C1: a relay_ingress_request call by a unit that is not the leader ends
\* with UnauthorizedError and leaves every databag as it was, whatever the
\* databags hold and whatever the arguments are.
NonLeaderRelayRefused ==
  [][(RelayStep /\ result'.unit # leader) =>
       /\ result'.outcome = "UnauthorizedError"
       /\ appData' = appData
       /\ remoteData' = remoteData]_vars

\* a refused call that had a relation to write to and arguments json.dumps accepts
NonLeaderRelayRefusedWitness ==
  /\ result.op = "relay_ingress_request"
  /\ result.outcome = "UnauthorizedError"
  /\ result.config = Config1 /\ result.ingress = Ingress1
  /\ relation # NoRelation
  /\ "config" \notin DOMAIN appData[relation]
  /\ "ingress" \notin DOMAIN appData[relation]

\* C2 as stated, read in its favour (only the calls that return are held to
\* it): after a relay_ingress_request call by the leader the application
\* databag holds exactly the keys "config" and "ingress", and parsing them
\* gives back config and ingress.
LeaderRelayExactFields ==
  [][(RelayStep /\ result'.unit = leader /\ result'.outcome = "ok") =>
       /\ DOMAIN appData'[relation] = {"config", "ingress"}
       /\ ParsesTo(appData'[relation], "config", result'.config)
       /\ ParsesTo(appData'[relation], "ingress", result'.ingress)]_vars

\* C2 amended: a call by the leader, with a relation on the endpoint and
\* arguments made of JSON-native values (strings, ints, None, lists, dicts
\* with string keys), returns; after it the databag holds "config" and
\* "ingress" next to the keys it held before, which keep their texts, and
\* parsing "config" gives back config and parsing "ingress" gives back ingress.
LeaderRelayWritesFields ==
  [][(/\ RelayStep
      /\ result'.unit = leader
      /\ relation # NoRelation
      /\ JsonNative(result'.config)
      /\ JsonNative(result'.ingress))
     => /\ result'.outcome = "ok"
        /\ DOMAIN appData'[relation] = DOMAIN appData[relation] \cup {"config", "ingress"}
        /\ \A k \in DOMAIN appData[relation] \ {"config", "ingress"} :
              appData'[relation][k] = appData[relation][k]
        /\ ParsesTo(appData'[relation], "config", result'.config)
        /\ ParsesTo(appData'[relation], "ingress", result'.ingress)]_vars

\* the leader has published into a databag that held another key, and the
\* fields parse back to the arguments
LeaderRelayWritesFieldsWitness ==
  /\ result.op = "relay_ingress_request"
  /\ result.outcome = "ok"
  /\ result.unit = leader
  /\ result.rel = relation
  /\ result.config = Config1 /\ result.ingress = Ingress1
  /\ DOMAIN appData[relation] = {"config", "ingress", OtherKey}
  /\ ParsesTo(appData[relation], "config", Config1)
  /\ ParsesTo(appData[relation], "ingress", Ingress1)

\* C3: when "traefik_route" of the remote application's databag holds the
\* serialization of {u: {"url": x}} and the calling unit is u, proxied_endpoint
\* returns x.
ProxiedEndpointReturnsUrl ==
  [][\A x \in Urls :
       (/\ ProxiedStep
        /\ relation # NoRelation
        /\ BagGet(remoteData[relation], "traefik_route")
             = SomeText(_serialize_data(RouteFor(result'.unit, x)).text))
       => (result'.outcome = "ok" /\ result'.ret = PyStr(x))]_vars

\* a unit has read its URL out of what was published for it
ProxiedEndpointReturnsUrlWitness ==
  /\ result.op = "proxied_endpoint"
  /\ result.unit = "app/1"
  /\ result.outcome = "ok"
  /\ result.ret = PyStr("http://foo.bar/app-0")
  /\ relation # NoRelation
  /\ BagGet(remoteData[relation], "traefik_route")
       = SomeText(TextOf(RouteFor("app/1", "http://foo.bar/app-0")))

\* C4: the relation accessor returns None when the endpoint has no relation
\* (an empty list, or no entry for the endpoint at all) and a relation of the
\* endpoint when there is at least one.
RelationAccessor ==
  [][RelationStep =>
       /\ (~declared \/ relations = <<>>) => result'.rel = NoRelation
       /\ (declared /\ relations # <<>>) => result'.rel \in Live]_vars

\* the accessor has returned the relation that is left after another one
\* was removed
RelationAccessorWitness ==
  /\ result.op = "relation"
  /\ result.rel \in Live
  /\ Len(relations) = 1
  /\ nextId > 2

\* C6: when "traefik_route" is missing from the remote application's databag
\* or is not well-formed JSON, proxied_endpoint raises the error of the
\* parsing call (TypeError for a missing field, JSONDecodeError for malformed
\* text) instead of returning, and no databag is modified by the read.
MalformedRouteRaises ==
  [][(/\ ProxiedStep
      /\ relation # NoRelation
      /\ LET raw == BagGet(remoteData[relation], "traefik_route")
         IN ~raw.present \/ raw.text \in MalformedTexts)
     => /\ result'.outcome \in {"TypeError", "JSONDecodeError"}
        /\ result'.ret = PyNone
        /\ appData' = appData
        /\ remoteData' = remoteData]_vars

\* a read that failed on text that was stored without complaint
MalformedRouteRaisesWitness ==
  /\ result.op = "proxied_endpoint"
  /\ result.outcome = "JSONDecodeError"
  /\ relation # NoRelation
  /\ "traefik_route" \in DOMAIN remoteData[relation]
  /\ remoteData[relation]["traefik_route"] \in MalformedTexts

\* C7: the application databag of a relation changes only in a step that is
\* a relay_ingress_request call by the unit that is the leader at that time;
\* calls by other units and the read accessors leave it unchanged.
SingleWriter ==
  [][/\ (\E r \in DOMAIN appData \cap DOMAIN appData' : appData'[r] # appData[r])
          => (RelayStep /\ result'.unit = leader /\ leader \in Units)
     /\ (RelationStep \/ ProxiedStep \/ (RelayStep /\ result'.unit # leader))
          => appData' = appData]_vars

\* the databag holds what a leader published, and the last call, a read by
\* a unit that is not the leader, has left it there
SingleWriterWitness ==
  /\ result.op = "proxied_endpoint"
  /\ result.unit # leader
  /\ relation # NoRelation
  /\ "ingress" \in DOMAIN appData[relation]

\* C8: with more than one relation on the endpoint, the accessor gives the
\* first relation of the host's list, proxied_endpoint reads the first
\* relation's remote databag, and the leader's relay_ingress_request writes
\* the first relation's databag, leaves the databags of the others as they
\* were and signals no error.
FirstRelationOnly ==
  [][Len(relations) > 1 =>
       /\ RelationStep => result'.rel = relations[1]
       /\ ProxiedStep =>
            /\ result'.outcome = ReadEndpoint(relations[1], result'.unit).outcome
            /\ result'.ret = ReadEndpoint(relations[1], result'.unit).ret
       /\ (RelayStep /\ result'.unit = leader
             /\ JsonNative(result'.config) /\ JsonNative(result'.ingress))
            => /\ result'.outcome = "ok"
               /\ BagGet(appData'[relations[1]], "config") = SomeText(TextOf(result'.config))
               /\ BagGet(appData'[relations[1]], "ingress") = SomeText(TextOf(result'.ingress))
               /\ \A i \in 2..Len(relations) :
                     appData'[relations[i]] = appData[relations[i]]]_vars

\* two relations with different remote data, the first one written by the
\* last call, the second one untouched
FirstRelationOnlyWitness ==
  /\ Len(relations) > 1
  /\ result.op = "relay_ingress_request"
  /\ result.outcome = "ok"
  /\ "config" \in DOMAIN appData[relations[1]]
  /\ "config" \notin DOMAIN appData[relations[2]]
  /\ BagGet(remoteData[relations[1]], "traefik_route")
       # BagGet(remoteData[relations[2]], "traefik_route")

\* C9: whenever relay_ingress_request ends in an error (not the leader, no
\* relation, an argument json.dumps rejects) the databag is unchanged.
RelayAllOrNothing ==
  [][(RelayStep /\ result'.outcome # "ok") => appData' = appData]_vars

\* C10: the "config" and "ingress" fields are the serializations of the
\* arguments of the most recent successful call by the leader (they stay so
\* until the next call), the call leaves every other key of the databag with
\* its value, and the same call made again leaves the databag unchanged.
LastWriteWins ==
  [][/\ (/\ result.op = "relay_ingress_request"
         /\ result.outcome = "ok"
         /\ result.rel \in Live)
        => /\ BagGet(appData[result.rel], "config")
                = SomeText(_serialize_data(result.config).text)
           /\ BagGet(appData[result.rel], "ingress")
                = SomeText(_serialize_data(result.ingress).text)
     /\ (RelayStep /\ result'.outcome = "ok")
        => /\ BagGet(appData'[relation], "config")
                = SomeText(_serialize_data(result'.config).text)
           /\ BagGet(appData'[relation], "ingress")
                = SomeText(_serialize_data(result'.ingress).text)
           /\ \A k \in DOMAIN appData[relation] \ {"config", "ingress"} :
                 /\ k \in DOMAIN appData'[relation]
                 /\ appData'[relation][k] = appData[relation][k]
           /\ (/\ result.op = "relay_ingress_request"
               /\ result.outcome = "ok"
               /\ result.rel = relation
               /\ result.config = result'.config
               /\ result.ingress = result'.ingress) => appData' = appData]_vars

\* the databag holds the fields of the last successful call next to the key
\* it held from the start
LastWriteWinsWitness ==
  /\ result.op = "relay_ingress_request"
  /\ result.outcome = "ok"
  /\ result.config = ConfigIntKey /\ result.ingress = Ingress2
  /\ result.rel \in Live
  /\ OtherKey \in DOMAIN appData[result.rel]
  /\ BagGet(appData[result.rel], "config") = SomeText(TextOf(ConfigIntKey))

====
